---- MODULE Spec2Model ----
(***************************************************************************)
(* Double-pendulum simulation: the frame callback `update`, the RK4        *)
(* stepper and the history sampler of src/App.tsx and                      *)
(* src/services/physicsEngine.ts, with the three user handlers of the      *)
(* Controls component (run/stop toggle, slider change, reset).             *)
(*                                                                         *)
(* Numbers.  JavaScript numbers are modelled as decimal fixed point:       *)
(*   - angles, angular velocities and Config fields in units of 1/S        *)
(*     (S = 1000), every product and quotient rounded to the nearest unit; *)
(*   - simulation time in units of 1/TPS second (TPS = 10000);             *)
(*   - wall-clock timestamps in whole milliseconds, so that dt/10 is a     *)
(*     whole number of time units and time arithmetic is exact.            *)
(* Rounding of the last bit of an IEEE double in time arithmetic is not    *)
(* represented.  Math.sin / Math.cos are Bhaskara's rational approximation.*)
(***************************************************************************)
EXTENDS Integers, Sequences, FiniteSets, TLC

\* state, config, isRunning, history : the four useState cells of App
\* lastTimeRef  : lastTimeRef.current, the timestamp anchor (Null when absent)
\* requestRef   : the `update` closure that the outstanding
\*                requestAnimationFrame request will call
\* frames, userEvents : how many frames / user events have happened (bounded)
\* last         : what the most recent operation was and what it did
\* fresh        : a simulation constructed anew at the most recent reset and
\*                given the same frames since
\* warming      : steps of the scripted warm-up still to come (0 in Spec)
VARIABLES state, config, isRunning, history, lastTimeRef, requestRef,
          frames, userEvents, last, fresh, warming

vars == <<state, config, isRunning, history, lastTimeRef, requestRef,
          frames, userEvents, last, fresh, warming>>

(* ---------------------------- bounds ----------------------------------- *)
MaxFrames == 4
MaxUserEvents == 3
WarmFrames == 156

(* ------------------------ number representation ------------------------ *)
S == 1000
TPS == 10000
\* null of `number | null`: timestamps are never negative
Null == -1

Abs(x) == IF x < 0 THEN -x ELSE x

\* a / b rounded to the nearest integer (b # 0)
Rnd(a, b) ==
  IF b < 0 THEN (2 * (-a) + (-b)) \div (2 * (-b))
  ELSE (2 * a + b) \div (2 * b)

Mul(a, b) == Rnd(a * b, S)
Div(a, b) == Rnd(a * S, b)
Min(a, b) == IF a < b THEN a ELSE b

PI == 3142
TWO_PI == 6283
HALF_PI == 1571

\* sin on [0, PI]
SinHalf(x) ==
  LET p == Rnd(x * (PI - x), S)
  IN  Rnd(16 * p * S, 5 * Mul(PI, PI) - 4 * p)

Sin(x) ==
  LET r == x % TWO_PI
  IN  IF r <= PI THEN SinHalf(r) ELSE -SinHalf(r - PI)

Cos(x) == Sin(x + HALF_PI)

\* x.toFixed(f) for x in units of 1/unit: the decimal string, held as the
\* signed count of 10^-f it denotes (ties go to the larger magnitude)
ToFixed(x, unit, f) ==
  LET p == IF f = 1 THEN 10 ELSE 100
      n == (2 * Abs(x) * p + unit) \div (2 * unit)
  IN  IF x < 0 THEN -n ELSE n

\* Number(str) of a string produced by toFixed(f), back in units of 1/unit
Number(n, unit, f) == n * (unit \div (IF f = 1 THEN 10 ELSE 100))

(* ------------------------------ constants ------------------------------ *)
INITIAL_CONFIG ==
  [L1 |-> 1200, L2 |-> 1000, m1 |-> 1500, m2 |-> 1000, g |-> 9810, damping |-> 20]

INITIAL_STATE ==
  [theta1 |-> Rnd(PI, 3), omega1 |-> 0, theta2 |-> Rnd(PI, 4), omega2 |-> 0, time |-> 0]

(* --------------------------- physicsEngine.ts -------------------------- *)
derivatives(y, cfg) ==
  LET t1 == y[1]
      w1 == y[2]
      t2 == y[3]
      w2 == y[4]
      L1 == cfg.L1
      L2 == cfg.L2
      m1 == cfg.m1
      m2 == cfg.m2
      g  == cfg.g
      delta == t1 - t2
      den == 2 * m1 + m2 - Mul(m2, Cos(2 * t1 - 2 * t2))
      a1 == Div(  Mul(Mul(-g, 2 * m1 + m2), Sin(t1))
                - Mul(Mul(m2, g), Sin(t1 - 2 * t2))
                - Mul(Mul(2 * Sin(delta), m2),
                      Mul(Mul(w2, w2), L2) + Mul(Mul(Mul(w1, w1), L1), Cos(delta))),
                Mul(L1, den))
      a2 == Div(  Mul(2 * Sin(delta),
                        Mul(Mul(Mul(w1, w1), L1), m1 + m2)
                      + Mul(Mul(g, m1 + m2), Cos(t1))
                      + Mul(Mul(Mul(w2, w2), L2), Cos(delta))),
                Mul(L2, den))
      dampedA1 == a1 - Mul(cfg.damping, w1)
      dampedA2 == a2 - Mul(cfg.damping, w2)
  IN  <<w1, dampedA1, w2, dampedA2>>

\* v + k * dt / 2 and v + k * dt, dt in time units
Half(y, k, dt) == [i \in 1..4 |-> y[i] + Rnd(k[i] * dt, 2 * TPS)]
Full(y, k, dt) == [i \in 1..4 |-> y[i] + Rnd(k[i] * dt, TPS)]

\* combine with the parentheses lost: v + dt / 6 * k1 + 2 * k2 + 2 * k3 + k4
combineUnscaled(v, a, b, c, d, dt) == v + Rnd(dt * a, 6 * TPS) + 2 * b + 2 * c + d

\* v + (dt / 6) * (k1 + 2 * k2 + 2 * k3 + k4), one channel
combine(v, a, b, c, d, dt) == v + Rnd(dt * (a + 2 * b + 2 * c + d), 6 * TPS)

rk4(st, cfg, dt) ==
  LET y  == <<st.theta1, st.omega1, st.theta2, st.omega2>>
      k1 == derivatives(y, cfg)
      k2 == derivatives(Half(y, k1, dt), cfg)
      k3 == derivatives(Half(y, k2, dt), cfg)
      k4 == derivatives(Full(y, k3, dt), cfg)
      nextY == [i \in 1..4 |-> combine(y[i], k1[i], k2[i], k3[i], k4[i], dt)]
  IN  [theta1 |-> nextY[1], omega1 |-> nextY[2],
       theta2 |-> nextY[3], omega2 |-> nextY[4],
       time |-> st.time + dt]

(* -------------------------------- App.tsx ------------------------------ *)
subSteps == 10
HISTORY_LIMIT == 100
\* 0.032 s in time units; milliseconds / 1000 in time units
MAX_FRAME_DT == (32 * TPS) \div 1000
Seconds(ms) == ms * (TPS \div 1000)

\* Math.floor(t * 20)
Floor20(t) == (t * 20) \div TPS

\* arr.slice(0, n), which keeps the oldest entries instead
sliceFirst(arr, n) ==
  IF Len(arr) <= n THEN arr ELSE SubSeq(arr, 1, n)

\* arr.slice(-n)
SliceLast(arr, n) ==
  IF Len(arr) <= n THEN arr ELSE SubSeq(arr, Len(arr) - n + 1, Len(arr))

newPoint(current) ==
  [time   |-> Number(ToFixed(current.time, TPS, 2), TPS, 2),
   theta1 |-> Number(ToFixed(Div(current.theta1 * 180, PI), S, 1), S, 1),
   theta2 |-> Number(ToFixed(Div(current.theta2 * 180, PI), S, 1), S, 1)]

\* setHistory(prev => [...prev, newPoint].slice(-100))
appendPoint(prev, current) == SliceLast(Append(prev, newPoint(current)), HISTORY_LIMIT)

\* faulty sampling conditions: >= for >, and buckets of a tenth of a second
crossedOrSame(current, prevState) == Floor20(current.time) >= Floor20(prevState.time)
crossedTenth(current, prevState) ==
  (current.time * 10) \div TPS > (prevState.time * 10) \div TPS

\* the sampling condition of update
crossed(current, prevState) == Floor20(current.time) > Floor20(prevState.time)

\* for (let i = 0; i < subSteps; i++) current = PhysicsEngine.rk4(current, config, subDt)
\* run.current : the state so far
\* run.args    : the <<Config, dt>> pairs the Stepper has been called with
\* run.times   : `time` after each Stepper call, in order
\* (values are bound through singleton sets so that each is computed once)
stepOnce(run, cfg, subDt) ==
  CHOOSE r \in { [current |-> next,
                  args    |-> run.args \cup {<<cfg, subDt>>},
                  times   |-> Append(run.times, next.time)] :
                 next \in {rk4(run.current, cfg, subDt)} } : TRUE

RECURSIVE subStepLoop(_, _, _, _)
subStepLoop(run, cfg, subDt, i) ==
  IF i < subSteps
  THEN CHOOSE out \in { subStepLoop(r, cfg, subDt, i + 1) :
                        r \in {stepOnce(run, cfg, subDt)} } : TRUE
  ELSE run

\* faulty frame_dt: the clamp left out, the subtraction reversed, and a clamp
\* wider than a sampling bucket
frameDtUnclamped(time, anchor) == Seconds(time - anchor)
frameDtReversed(time, anchor) == Min(Seconds(anchor - time), MAX_FRAME_DT)
frameDtLoose(time, anchor) == Min(Seconds(time - anchor), 2 * MAX_FRAME_DT)

\* Math.min((time - lastTimeRef.current) / 1000, 0.032)
frameDt(time, anchor) == Min(Seconds(time - anchor), MAX_FRAME_DT)

\* faulty guard: the anchor is not tested
integratesWithoutAnchor(sim, cl) == cl.isRunning

\* if (lastTimeRef.current !== null && isRunning)
integrates(sim, cl) == sim.lastTimeRef # Null /\ cl.isRunning

\* faulty anchor: recorded inside the running branch only
anchorWhileRunning(sim, cl, time) == IF cl.isRunning THEN time ELSE sim.lastTimeRef

\* lastTimeRef.current = time
anchorAfter(sim, cl, time) == time

\* update(time) called through closure cl on the simulation sim =
\* [state, history, lastTimeRef]; the result also carries what the call did
update(sim, cl, time) ==
  IF integrates(sim, cl)
  THEN CHOOSE out \in
         { [state       |-> run.current,
            history     |-> IF crossed(run.current, sim.state)
                            THEN appendPoint(sim.history, run.current)
                            ELSE sim.history,
            lastTimeRef |-> anchorAfter(sim, cl, time),
            args        |-> run.args,
            times       |-> run.times,
            points      |-> IF crossed(run.current, sim.state) THEN 1 ELSE 0] :
           run \in { subStepLoop([current |-> st, args |-> {}, times |-> <<>>],
                                 cfg, dt \div subSteps, 0) :
                     st \in {sim.state}, cfg \in {cl.config},
                     dt \in {frameDt(time, sim.lastTimeRef)} } } : TRUE
  ELSE [state |-> sim.state, history |-> sim.history,
        lastTimeRef |-> anchorAfter(sim, cl, time),
        args |-> {}, times |-> <<>>, points |-> 0]

\* faulty closure: config is missing from the dependency list, so the
\* closure keeps the Config of the first render
staleClosure(running, cfg) == [isRunning |-> running, config |-> INITIAL_CONFIG]

\* useCallback(..., [isRunning, config]) followed by the effect that cancels
\* the outstanding request and requests a frame for the new closure
updateClosure(running, cfg) == [isRunning |-> running, config |-> cfg]

\* the three cells a simulation consists of
Sim(st, hist, anchor) == [state |-> st, history |-> hist, lastTimeRef |-> anchor]
SimOf(r) == Sim(r.state, r.history, r.lastTimeRef)

\* useState(INITIAL_STATE), useState([]), useRef(null)
Constructed == Sim(INITIAL_STATE, <<>>, Null)

\* faulty reset: the anchor is not cleared
resetKeepsAnchor(sim) == [sim EXCEPT !.state = INITIAL_STATE, !.history = <<>>]

\* resetState()
resetState(sim) ==
  [sim EXCEPT !.state = INITIAL_STATE, !.history = <<>>, !.lastTimeRef = Null]

(* ------------------------------ Controls ------------------------------- *)
DigitVal == [c \in {"0", "1", "2", "3", "4", "5", "6", "7", "8", "9"} |->
               CASE c = "0" -> 0 [] c = "1" -> 1 [] c = "2" -> 2 [] c = "3" -> 3
                 [] c = "4" -> 4 [] c = "5" -> 5 [] c = "6" -> 6 [] c = "7" -> 7
                 [] c = "8" -> 8 [] c = "9" -> 9]

\* parseFloat of a decimal string (a sequence of characters), in units of 1/S.
\* scale = S while reading the digits before the point; after the point it is
\* the weight of the next digit (digits beyond the third weigh nothing)
RECURSIVE parseDigits(_, _, _, _)
parseDigits(str, i, acc, scale) ==
  IF i > Len(str) THEN (IF scale = S THEN acc * S ELSE acc)
  ELSE IF str[i] = "."
       THEN (IF scale = S THEN parseDigits(str, i + 1, acc * S, S \div 10) ELSE acc)
  ELSE IF scale = S
       THEN parseDigits(str, i + 1, acc * 10 + DigitVal[str[i]], S)
  ELSE parseDigits(str, i + 1, acc + DigitVal[str[i]] * scale, scale \div 10)

parseFloat(str) == parseDigits(str, 1, 0, S)

\* setConfig({...config, [name]: parseFloat(value)})
handleChange(cfg, e) == [cfg EXCEPT ![e.name] = parseFloat(e.value)]

(* ------------------------------ environment ---------------------------- *)
\* milliseconds between two frames: a repeated timestamp, 50 Hz, a stall
Deltas == {0, 20, 120}
\* timestamp of a frame that finds no anchor
FirstStamps == {0, 1000}
\* slider events
ChangeEvents ==
  { [name |-> "m1", value |-> <<"2", ".", "5">>],
    [name |-> "damping", value |-> <<"0">>] }

\* the record of the most recent operation
\*   op        : which handler ran
\*   ts        : the timestamp of the most recent frame since the last reset
\*   running   : the running flag the most recent frame saw
\*   before    : the simulation an update started from
\*   args, times, points : what that update did (see update)
\*   resumed   : that update integrated and the frame before it was paused
\*   discarded : the most recent reset threw away a State with time > 0
Mounted ==
  [op |-> "mount", ts |-> 0, running |-> FALSE, before |-> Constructed,
   args |-> {}, times |-> <<>>, points |-> 0, resumed |-> FALSE, discarded |-> FALSE]

UserOp(name) ==
  [last EXCEPT !.op = name, !.before = Constructed,
               !.args = {}, !.times = <<>>, !.points = 0, !.resumed = FALSE]

Mount ==
  /\ state = INITIAL_STATE
  /\ config = INITIAL_CONFIG
  /\ isRunning = FALSE
  /\ history = <<>>
  /\ lastTimeRef = Null
  /\ requestRef = updateClosure(FALSE, INITIAL_CONFIG)
  /\ frames = 0
  /\ userEvents = 0
  /\ last = Mounted
  /\ fresh = Constructed

Init == Mount /\ warming = 0

\* the frame callback fires with timestamp time
Frame(time) ==
  /\ \E r \in {update(Sim(state, history, lastTimeRef), requestRef, time)} :
       \E f \in {IF fresh = Sim(state, history, lastTimeRef) THEN r
                 ELSE update(fresh, requestRef, time)} :
          /\ state' = r.state
          /\ history' = r.history
          /\ lastTimeRef' = r.lastTimeRef
          /\ last' = [op |-> "update", ts |-> time,
                      running |-> requestRef.isRunning,
                      before |-> Sim(state, history, lastTimeRef),
                      args |-> r.args, times |-> r.times, points |-> r.points,
                      resumed |-> /\ r.times # <<>>
                                  /\ last.op # "mount"
                                  /\ last.ts = lastTimeRef
                                  /\ ~last.running,
                      discarded |-> last.discarded]
          /\ fresh' = SimOf(f)
  /\ UNCHANGED <<config, isRunning, requestRef>>

\* onClick={() => setIsRunning(!isRunning)}
Click ==
  /\ isRunning' = ~isRunning
  /\ requestRef' = updateClosure(isRunning', config)
  /\ last' = UserOp("toggle")
  /\ UNCHANGED <<state, config, history, lastTimeRef, fresh>>

Tick ==
  /\ warming = 0
  /\ frames < MaxFrames
  /\ \E time \in (IF lastTimeRef = Null THEN FirstStamps
                  ELSE {lastTimeRef + d : d \in Deltas}) : Frame(time)
  /\ frames' = frames + 1
  /\ UNCHANGED <<userEvents, warming>>

Toggle ==
  /\ warming = 0
  /\ userEvents < MaxUserEvents
  /\ Click
  /\ userEvents' = userEvents + 1
  /\ UNCHANGED <<frames, warming>>

\* a slider's onChange
Change ==
  /\ warming = 0
  /\ userEvents < MaxUserEvents
  /\ \E e \in ChangeEvents :
        /\ config' = handleChange(config, e)
        /\ config' # config
  /\ requestRef' = updateClosure(isRunning, config')
  /\ userEvents' = userEvents + 1
  /\ last' = UserOp("handleChange")
  /\ UNCHANGED <<state, isRunning, history, lastTimeRef, frames, fresh, warming>>

\* onReset
Reset ==
  /\ warming = 0
  /\ userEvents < MaxUserEvents
  /\ \E r \in {resetState(Sim(state, history, lastTimeRef))} :
        /\ state' = r.state
        /\ history' = r.history
        /\ lastTimeRef' = r.lastTimeRef
  /\ fresh' = Constructed
  /\ userEvents' = userEvents + 1
  /\ last' = [UserOp("resetState") EXCEPT !.ts = 0, !.running = FALSE,
                                           !.discarded = state.time > 0]
  /\ UNCHANGED <<config, isRunning, requestRef, frames, warming>>

Next == Tick \/ Toggle \/ Change \/ Reset

Spec == Init /\ [][Next]_vars

\* The same program, first driven through a scripted warm-up that fills the
\* History: the user starts the simulation, then WarmFrames + 1 frames arrive
\* 40 ms apart; after that the environment is free as in Spec.
WarmUp ==
  /\ warming > 0
  /\ warming' = warming - 1
  /\ IF ~isRunning
     THEN Click /\ userEvents' = userEvents + 1
     ELSE Frame(IF lastTimeRef = Null THEN 0 ELSE lastTimeRef + 40)
          /\ UNCHANGED userEvents
  /\ UNCHANGED frames

InitWarm == Mount /\ warming = WarmFrames + 2

NextWarm == WarmUp \/ Tick \/ Toggle \/ Change \/ Reset

SpecWarm == InitWarm /\ [][NextWarm]_vars

(* ------------------------------- claims -------------------------------- *)
Updated == last.op = "update"
Integrated == Updated /\ last.times # <<>>
Anchor == last.before.lastTimeRef

\* C1: the History never holds more than 100 entries, and an append to a
\* History of 100 entries drops exactly the oldest one: the other 99 keep
\* their order and stand ahead of the new point.
C1_HistoryBounded ==
  /\ Len(history) <= 100
  /\ (Updated /\ last.points = 1 /\ Len(last.before.history) = 100) =>
       /\ Len(history) = 100
       /\ SubSeq(history, 1, 99) = SubSeq(last.before.history, 2, 100)
       /\ history[100].time = Number(ToFixed(state.time, TPS, 2), TPS, 2)

C1_Witness ==
  /\ Updated
  /\ last.points = 1
  /\ Len(last.before.history) = 100
  /\ history[1] # last.before.history[1]

\* C2: the stored times of adjacent HistoryPoints are strictly increasing.
C2_HistoryStrictlyIncreasing ==
  \A i \in 1..(Len(history) - 1) : history[i].time < history[i + 1].time

C2_Witness ==
  /\ Updated
  /\ last.points = 1
  /\ Len(history) >= 2
  /\ Len(last.before.history) < Len(history)
  /\ last.ts - Anchor < 40

\* C3: a frame that finds no anchor only records its timestamp: no Stepper
\* call, State and History unchanged, no point, whatever the running flag.
C3_FirstFrameOnlyAnchors ==
  (Updated /\ Anchor = Null) =>
     /\ state = last.before.state
     /\ history = last.before.history
     /\ lastTimeRef = last.ts
     /\ last.times = <<>>
     /\ last.args = {}
     /\ last.points = 0

C3_Witness ==
  /\ Updated
  /\ Anchor = Null
  /\ last.running
  /\ last.discarded

\* C4: a frame delivered while the running flag is unset changes neither State
\* nor History and moves the anchor to its timestamp; the anchor is always the
\* timestamp of the most recent frame, so an integrating frame measures its
\* frame_dt from the frame just before it, paused or not.
C4_PausedFrameMovesAnchor ==
  /\ (Updated /\ ~last.running) =>
        /\ state = last.before.state
        /\ history = last.before.history
        /\ lastTimeRef = last.ts
  /\ (lastTimeRef # Null) => (last.op # "mount" /\ lastTimeRef = last.ts)
  /\ Integrated =>
        state.time = last.before.state.time
                       + Min(Seconds(last.ts - Anchor), MAX_FRAME_DT)

C4_Witness ==
  /\ last.resumed
  /\ last.before.state.time > 0
  /\ last.ts - Anchor = 20
  /\ state.time = last.before.state.time + Seconds(20)

\* C5: an integrating frame calls the Stepper exactly 10 times with
\* sub_dt = frame_dt / 10, frame_dt = min((timestamp - anchor) / 1000, 0.032);
\* each call advances time by sub_dt, the frame advances it by frame_dt, which
\* is never more than 0.032 s.
C5_TenSubSteps ==
  (Updated /\ Anchor # Null /\ last.running) =>
     LET gap == Seconds(last.ts - Anchor)
         dt == IF gap < (32 * TPS) \div 1000 THEN gap ELSE (32 * TPS) \div 1000
         t0 == last.before.state.time
     IN  /\ Len(last.times) = 10
         /\ \A a \in last.args : a[2] * 10 = dt
         /\ \A i \in 1..10 : last.times[i] * 10 = t0 * 10 + i * dt
         /\ state.time = t0 + dt
         /\ (state.time - t0) * 1000 <= 32 * TPS

C5_Witness ==
  /\ Integrated
  /\ last.ts - Anchor = 120
  /\ state.time - last.before.state.time = (32 * TPS) \div 1000
  /\ last.before.state.time > 0

\* C6: after a reset the simulation is the one a fresh construction gives
\* (initial State, empty History, no anchor), and from then on it equals a
\* fresh simulation given the same frames, running flags and Configs.
C6_ResetIsFresh ==
  /\ fresh = Sim(state, history, lastTimeRef)
  /\ (last.op = "resetState") =>
        /\ state = INITIAL_STATE
        /\ history = <<>>
        /\ lastTimeRef = Null

C6_Witness ==
  /\ last.discarded
  /\ Integrated
  /\ state.time > 0
  /\ fresh.state = state

\* C7: with non-decreasing timestamps (any timestamp right after a reset),
\* State.time never decreases from one step to the next, except at a reset,
\* where it returns to the initial time.
C7_TimeMonotone ==
  [][ \/ state'.time >= state.time
      \/ (last'.op = "resetState" /\ state'.time = INITIAL_STATE.time) ]_vars

C7_Witness ==
  /\ last.op = "resetState"
  /\ last.discarded
  /\ state.time = 0

\* C8: an integrating frame emits exactly one HistoryPoint when
\* floor(new_time * 20) > floor(old_time * 20) and none otherwise; no frame
\* emits more than one, and the point holds the post-frame time and angles.
C8_OnePointPerBucket ==
  /\ last.points \in {0, 1}
  /\ Updated =>
       IF /\ Integrated
          /\ (state.time * 20) \div TPS > (last.before.state.time * 20) \div TPS
       THEN /\ last.points = 1
            /\ history = SliceLast(Append(last.before.history, newPoint(state)), 100)
       ELSE /\ last.points = 0
            /\ history = last.before.history

C8_Witness ==
  /\ Integrated
  /\ last.points = 1
  /\ history = Append(last.before.history, newPoint(state))
  /\ history[Len(history)].theta1 # Number(ToFixed(Div(INITIAL_STATE.theta1 * 180, PI), S, 1), S, 1)

\* C9: the closure the next frame will call always holds the most recent
\* Config (and flag), and all sub-steps of a frame are given that one Config.
C9_ConfigAtomic ==
  /\ requestRef = [isRunning |-> isRunning, config |-> config]
  /\ Integrated => \A a \in last.args : a[1] = config

C9_Witness ==
  /\ Integrated
  /\ config # INITIAL_CONFIG
  /\ last.before.state.time > 0
  /\ \A a \in last.args : a[1] = config

\* C10: the Stepper with dt = 0 returns its input unchanged, so a running
\* frame whose timestamp equals the anchor leaves State unchanged and emits no
\* point.
C10_ZeroDtIdentity ==
  /\ rk4(state, config, 0) = state
  /\ (Updated /\ last.running /\ Anchor # Null /\ last.ts = Anchor) =>
        /\ Len(last.times) = 10
        /\ state = last.before.state
        /\ history = last.before.history
        /\ last.points = 0

C10_Witness ==
  /\ Integrated
  /\ last.ts = Anchor
  /\ state.omega1 # 0
  /\ state.time > 0

\* C11: a frame raises the bucket index floor(time * 20) by at most 1 and
\* emits a HistoryPoint exactly when it raises it, however long the gap before
\* the frame; so between resets the newest point lies in the bucket of the
\* current time (no point yet means bucket 0), and adjacent points of the
\* History lie in adjacent buckets, less than 0.1 s apart.
C11_NoBucketSkipped ==
  /\ Updated =>
       LET rise == Floor20(state.time) - Floor20(last.before.state.time)
       IN  /\ rise \in {0, 1}
           /\ last.points = rise
  /\ IF history = <<>>
     THEN Floor20(state.time) = 0
     ELSE Floor20(history[Len(history)].time) = Floor20(state.time)
  /\ \A i \in 1..(Len(history) - 1) :
        /\ Floor20(history[i + 1].time) = Floor20(history[i].time) + 1
        /\ (history[i + 1].time - history[i].time) * 10 < TPS

C11_Witness ==
  /\ Integrated
  /\ last.ts - Anchor > 50
  /\ last.points = 1
  /\ Len(history) >= 2
  /\ last.before.state.time % MAX_FRAME_DT # 0

====
